---- MODULE Spec2Model ----
(***************************************************************************)
(* Model of the allow list store of core/internal/allow/allow.go:          *)
(* the query segmenter (parseQuery/setValue), the write path               *)
(* (Set -> saveChan -> writer goroutine -> save -> saveItem) and the read  *)
(* path (Load, Get, GetByName, FragmentFetcher) over an abstract           *)
(* filesystem.                                                             *)
(*                                                                         *)
(* Text is a sequence of atoms.  An atom stands for a run of bytes that    *)
(* the code never looks inside: a word, one punctuation byte, one blank.   *)
(* A byte offset of the Go code is an atom offset here; b[i:j] of the Go   *)
(* code is Slice(b, i, j).                                                 *)
(***************************************************************************)
EXTENDS Integers, Sequences, FiniteSets, TLC

(***************************************************************************)
(* Atoms                                                                   *)
(***************************************************************************)
SP == " "
NL == "\n"
Blank == { SP, NL }
Slash == "/"
LBrace == "{"
RBrace == "}"
COpen == "/*"
CClose == "*/"
Dot == "."

\* atoms that text/scanner treats as letters of an identifier
Letters ==
    { "query", "mutation", "subscription", "fragment", "variables", "s", "List",
      "GetUser", "getuser", "Other", "other", "UserFields", "OtherFields",
      "on", "User", "name", "c", "ns", "gql", "graphql", "yml", "yaml", "txt" }

\* strings.ToLower on one atom
LowerAtom(a) ==
    CASE a = "GetUser" -> "getuser"
      [] a = "Other" -> "other"
      [] a = "UserFields" -> "userfields"
      [] a = "OtherFields" -> "otherfields"
      [] a = "User" -> "user"
      [] a = "List" -> "list"
      [] OTHER -> a

ToLower(s) == [i \in 1..Len(s) |-> LowerAtom(s[i])]

\* b[i:j] with 0-based offsets, as Go slices
Slice(b, i, j) == SubSeq(b, i + 1, j)

Min(S) == CHOOSE i \in S : \A j \in S : i <= j
Max(S) == CHOOSE i \in S : \A j \in S : j <= i

\* the offset of the last, of the first, of the positions S; -1 if none
LastOf(S) == IF S = {} THEN -1 ELSE Max(S) - 1
FirstOf(S) == IF S = {} THEN -1 ELSE Min(S) - 1

\* strings.LastIndexByte(v, c) and strings.IndexByte(v, c)
LastIndexByte(v, c) == LastOf({ i \in 1..Len(v) : v[i] = c })
IndexByte(v, c) == FirstOf({ i \in 1..Len(v) : v[i] = c })

\* v from the first to the last of its positions keep
Span(v, keep) == IF keep = {} THEN <<>> ELSE SubSeq(v, Min(keep), Max(keep))

\* strings.TrimSpace
TrimSpace(v) == Span(v, { i \in 1..Len(v) : v[i] \notin Blank })

\* strings.HasPrefix(txt, word) for a word that is one atom
HasPrefix(txt, word) == Len(txt) >= 1 /\ txt[1] = word

(***************************************************************************)
(* text/scanner with Mode = GoTokens without SkipComments: blanks are      *)
(* skipped, a run of letters is one identifier token, a comment is one     *)
(* token, anything else is a one-atom token.                               *)
(***************************************************************************)
RECURSIVE SkipBlanks(_, _)
SkipBlanks(b, i) ==
    IF i <= Len(b) /\ b[i] \in Blank THEN SkipBlanks(b, i + 1) ELSE i

RECURSIVE IdentEnd(_, _)
IdentEnd(b, i) ==
    IF i + 1 <= Len(b) /\ b[i + 1] \in Letters THEN IdentEnd(b, i + 1) ELSE i

RECURSIVE CommentEnd(_, _)
CommentEnd(b, i) ==
    IF i >= Len(b) THEN Len(b)
    ELSE IF b[i + 1] = CClose THEN i + 1 ELSE CommentEnd(b, i + 1)

\* the token that starts at atom i, if there is one
TokAt(b, i) ==
    IF i > Len(b) THEN [eof |-> TRUE, start |-> Len(b), end |-> Len(b)]
    ELSE [eof |-> FALSE, start |-> i - 1,
          end |-> IF b[i] \in Letters THEN IdentEnd(b, i)
                  ELSE IF b[i] = COpen THEN CommentEnd(b, i)
                  ELSE i]

\* s.Scan() from offset pos: [eof, start, end] where the token is
\* b[start:end] and end is s.Pos().Offset after the call
ScanTok(b, pos) == TokAt(b, SkipBlanks(b, pos + 1))

(***************************************************************************)
(* Item, Metadata, Frag                                                    *)
(***************************************************************************)
expComment == 1
expVar == 2
expQuery == 3
expFrag == 4

NoMetadata == [Var |-> <<>>, Values |-> <<>>]

\* the zero value of Item
ZeroItem ==
    [Namespace |-> <<>>, Name |-> <<>>, Comment |-> <<>>, key |-> <<>>,
     Query |-> <<>>, Vars |-> <<>>, Metadata |-> NoMetadata, frags |-> <<>>]

\* the tokens of a text from token t on, as texts
RECURSIVE TokensFrom(_, _)
TokensFrom(b, t) ==
    IF t.eof THEN <<>>
    ELSE <<Slice(b, t.start, t.end)>> \o TokensFrom(b, ScanTok(b, t.end))

Tokens(b) == TokensFrom(b, ScanTok(b, 0))

Second(ts) == IF Len(ts) >= 2 THEN ts[2] ELSE <<>>

\* the identifier that follows the fragment keyword
fragmentName(v) == Second(Tokens(v))

\* whether a token is an operation keyword
isGraphQL(txt) ==
    txt \in { <<"query">>, <<"mutation">>, <<"subscription">> }

(***************************************************************************)
(* The segmenter                                                           *)
(***************************************************************************)
\* the closure val() of setValue
FlushVal(v) == TrimSpace(Slice(v, 0, LastIndexByte(v, RBrace) + 1))

\* setValue never fails: its error result is always nil
setValueErr(st, v, item) == FALSE

\* the switch of setValue on st, with val the result of val()
Assign(st, val, item) ==
    CASE st = expComment -> [item EXCEPT !.Comment = val]
      [] st = expVar -> [item EXCEPT !.Vars = val]
      [] st = expQuery -> [item EXCEPT !.Query = val]
      [] st = expFrag ->
            [item EXCEPT !.frags =
                Append(@, [Name |-> fragmentName(val), Value |-> val])]
      [] OTHER -> item

setValue(st, v, item) == Assign(st, FlushVal(v), item)

\* the state of parseQuery before the first Scan
ScanStart ==
    [pos |-> 0, st |-> expComment, sp |-> 0, op |-> 0, item |-> ZeroItem,
     err |-> FALSE, done |-> FALSE]

\* the switch of the loop of parseQuery on the token txt that ends at
\* offset end, with the item and the error setValue gives for the span
Switch(s, txt, end, flushed, ferr) ==
    CASE HasPrefix(txt, COpen) ->
            [s EXCEPT !.item = flushed, !.err = ferr, !.sp = end]
      [] HasPrefix(txt, "variables") ->
            [s EXCEPT !.item = flushed, !.err = ferr, !.sp = end,
                      !.st = expVar]
      [] isGraphQL(txt) ->
            [s EXCEPT !.item = flushed, !.err = ferr, !.sp = s.op,
                      !.st = expQuery]
      [] HasPrefix(txt, "fragment") ->
            [s EXCEPT !.item = flushed, !.err = ferr, !.sp = s.op,
                      !.st = expFrag]
      [] OTHER -> s

\* the end of the body of the loop: return on an error, else op = s.Pos()
LoopEnd(r, end) ==
    IF r.err THEN [r EXCEPT !.pos = end, !.done = TRUE]
    ELSE [r EXCEPT !.pos = end, !.op = end]

\* the code after the loop: a last setValue in the states expQuery and
\* expFrag, then the key
AfterLoop(s, end, flushed, ferr) ==
    IF s.st = expQuery \/ s.st = expFrag
    THEN [s EXCEPT !.pos = end, !.done = TRUE, !.err = ferr,
                   !.item = IF ferr THEN flushed
                            ELSE [flushed EXCEPT !.key = ToLower(flushed.Name)]]
    ELSE [s EXCEPT !.pos = end, !.done = TRUE,
                   !.item = [s.item EXCEPT !.key = ToLower(s.item.Name)]]

\* what parseQuery does with the result t of s.Scan(), v being
\* b[sp.Offset:s.Pos().Offset]
OnToken(b, s, t, v) ==
    IF t.eof
    THEN AfterLoop(s, t.end, setValue(s.st, v, s.item),
                   setValueErr(s.st, v, s.item))
    ELSE LoopEnd(Switch(s, Slice(b, t.start, t.end), t.end,
                        setValue(s.st, v, s.item),
                        setValueErr(s.st, v, s.item)),
                 t.end)

\* the span a flush at the token t takes
SpanAt(b, s, t) == Slice(b, s.sp, t.end)

\* one Scan of the loop of parseQuery with the switch that follows it, or,
\* at EOF, the code after the loop
ScanAt(b, s, t) == OnToken(b, s, t, SpanAt(b, s, t))

ScanStep(b, s) == ScanAt(b, s, ScanTok(b, s.pos))

RECURSIVE ScanRun(_, _)
ScanRun(b, s) == IF s.done THEN s ELSE ScanRun(b, ScanStep(b, s))

Returned(s) == [item |-> s.item, err |-> s.err]

\* parseQuery(b): the item and whether an error is returned
parseQuery(b) == Returned(ScanRun(b, ScanStart))

(***************************************************************************)
(* Paths and the filesystem (afero.Fs).  A filesystem value is a record    *)
(* [dirs, files]: the set of directories and a function from the paths of  *)
(* the files to their contents.  A read operation takes, besides the       *)
(* filesystem, the set bad of pairs <<call, path>> that the filesystem answers   *)
(* with an I/O error.                                                      *)
(***************************************************************************)
queryPath == <<"/queries">>
fragmentPath == <<"/fragments">>

\* filepath.Join(dir, name)
Join(dir, name) == IF name = <<>> THEN dir ELSE dir \o <<Slash>> \o name

\* filepath.Base
Base(path) == Slice(path, LastIndexByte(path, Slash) + 1, Len(path))

\* filepath.Dir
Dir(path) ==
    IF LastIndexByte(path, Slash) <= 0 THEN <<Slash>>
    ELSE Slice(path, 0, LastIndexByte(path, Slash))

\* filepath.Ext: from the last dot of the last element
Ext(path) ==
    LET b == Base(path)
        i == LastIndexByte(b, Dot)
    IN  IF i = -1 THEN <<>> ELSE Slice(b, i, Len(b))

\* strings.TrimSuffix
TrimSuffix(v, suf) ==
    IF Len(suf) <= Len(v) /\ Slice(v, Len(v) - Len(suf), Len(v)) = suf
    THEN Slice(v, 0, Len(v) - Len(suf))
    ELSE v

splitName(v) ==
    LET i == LastIndexByte(v, Dot)
    IN  IF i = -1 THEN <<<<>>, v>>
        ELSE IF i < Len(v) - 1 THEN <<Slice(v, 0, i), Slice(v, i + 1, Len(v))>>
        ELSE <<<<>>, <<>>>>

\* afero.Exists: a file or a directory is there
Exists(F, bad, p) ==
    IF <<"stat", p>> \in bad THEN [ok |-> FALSE, err |-> TRUE]
    ELSE [ok |-> p \in DOMAIN F.files \/ p \in F.dirs, err |-> FALSE]

\* afero.DirExists
DirExists(F, bad, p) ==
    IF <<"stat", p>> \in bad THEN [ok |-> FALSE, err |-> TRUE]
    ELSE [ok |-> p \in F.dirs, err |-> FALSE]

\* afero.ReadFile
ReadFile(F, bad, p) ==
    IF <<"read", p>> \in bad \/ p \notin DOMAIN F.files THEN [data |-> <<>>, err |-> TRUE]
    ELSE [data |-> F.files[p], err |-> FALSE]

\* afero.WriteFile; ok is whether the filesystem accepts the write, and a
\* file can only be created in a directory that exists
WriteFile(F, p, data, ok) ==
    IF ok /\ Dir(p) \in F.dirs
    THEN [F |-> [F EXCEPT !.files =
                    [q \in DOMAIN F.files \cup {p} |->
                        IF q = p THEN data ELSE F.files[q]]],
          err |-> FALSE]
    ELSE [F |-> F, err |-> TRUE]

\* fs.MkdirAll; ok is whether the filesystem accepts it
MkdirAll(F, p, ok) == IF ok THEN [F EXCEPT !.dirs = @ \cup {p}] ELSE F

(***************************************************************************)
(* The codecs: the JSON cleaning and indenting of Vars, the YAML document  *)
(* of an Item, and the parser that gives an operation its name.            *)
(***************************************************************************)
Colon == ":"
Comma == ","
Pad == "  "
YEOL == "<eol>"
Dash == "-"

\* the number of braces of v that are still open after its atoms 1..n,
\* or -1 once a closing brace had none to close
RECURSIVE Depth(_, _)
Depth(v, n) ==
    IF n = 0 THEN 0
    ELSE LET d == Depth(v, n - 1)
         IN  IF d < 0 THEN -1
             ELSE IF v[n] = LBrace THEN d + 1
             ELSE IF v[n] = RBrace THEN d - 1
             ELSE d

\* v without its blanks
RECURSIVE Compact(_)
Compact(v) ==
    IF v = <<>> THEN <<>>
    ELSE IF Head(v) \in Blank THEN Compact(Tail(v))
    ELSE <<Head(v)>> \o Compact(Tail(v))

\* whether compact text is one JSON object
IsObject(c) ==
    /\ c # <<>>
    /\ Head(c) = LBrace
    /\ c[Len(c)] = RBrace
    /\ Depth(c, Len(c)) = 0
    /\ \A n \in 1..(Len(c) - 1) : Depth(c, n) > 0

Cleared(c) ==
    IF IsObject(c) THEN [out |-> c, err |-> FALSE]
    ELSE [out |-> <<>>, err |-> TRUE]

\* jsn.Clear: the JSON value without what is not part of it; fails on
\* text that is not one JSON object
jsnClear(v) == Cleared(Compact(v))

RECURSIVE Pads(_)
Pads(d) == IF d <= 0 THEN <<>> ELSE <<Pad>> \o Pads(d - 1)

\* json.MarshalIndent(raw, "", "  ") of compact JSON, from atom n on
RECURSIVE IndentFrom(_, _)
IndentFrom(c, n) ==
    IF n > Len(c) THEN <<>>
    ELSE LET d == Depth(c, n)
             a == c[n]
             one ==
               CASE a = LBrace /\ n < Len(c) /\ c[n + 1] = RBrace -> <<a>>
                 [] a = LBrace -> <<a, NL>> \o Pads(d)
                 [] a = RBrace /\ n > 1 /\ c[n - 1] = LBrace -> <<a>>
                 [] a = RBrace -> <<NL>> \o Pads(d) \o <<a>>
                 [] a = Comma -> <<a, NL>> \o Pads(d)
                 [] a = Colon -> <<a, SP>>
                 [] OTHER -> <<a>>
         IN  one \o IndentFrom(c, n + 1)

MarshalIndent(c) == IndentFrom(c, 1)

\* one "key: value" line of a YAML document
YamlLine(key, val) == <<key>> \o val \o <<YEOL>>

RECURSIVE YamlList(_)
YamlList(vals) ==
    IF vals = <<>> THEN <<>>
    ELSE <<Dash>> \o Head(vals) \o YamlList(Tail(vals))

\* yaml.Encoder.Encode(&item): the exported fields, the omitempty ones
\* only when they are not empty; key and frags are not exported
YamlEncode(item) ==
    (IF item.Namespace # <<>> THEN YamlLine("namespace:", item.Namespace)
     ELSE <<>>)
    \o YamlLine("name:", item.Name)
    \o (IF item.Comment # <<>> THEN YamlLine("comment:", item.Comment)
        ELSE <<>>)
    \o YamlLine("query:", item.Query)
    \o (IF item.Vars # <<>> THEN YamlLine("vars:", item.Vars) ELSE <<>>)
    \o (IF item.Metadata.Var # <<>>
        THEN YamlLine("order.var:", item.Metadata.Var) ELSE <<>>)
    \o (IF item.Metadata.Values # <<>>
        THEN YamlLine("order.values:", YamlList(item.Metadata.Values))
        ELSE <<>>)

YamlKeys ==
    { "namespace:", "name:", "comment:", "query:", "vars:", "order.var:",
      "order.values:" }

\* the entries of a YAML list
RECURSIVE YamlUnlist(_)
YamlUnlist(v) ==
    IF v = <<>> THEN <<>>
    ELSE LET rest == Tail(v)
             i == IndexByte(rest, Dash)
         IN  IF i = -1 THEN <<rest>>
             ELSE <<Slice(rest, 0, i)>> \o YamlUnlist(Slice(rest, i, Len(rest)))

\* yaml.Unmarshal(b, &item) into item, line by line
RECURSIVE YamlDecodeInto(_, _)
YamlDecodeInto(b, item) ==
    IF b = <<>> THEN [item |-> item, err |-> FALSE]
    ELSE LET e == IndexByte(b, YEOL)
         IN  IF e = -1 \/ Head(b) \notin YamlKeys
             THEN [item |-> item, err |-> TRUE]
             ELSE LET k == Head(b)
                      val == Slice(b, 1, e)
                      it == CASE k = "namespace:" -> [item EXCEPT !.Namespace = val]
                              [] k = "name:" -> [item EXCEPT !.Name = val]
                              [] k = "comment:" -> [item EXCEPT !.Comment = val]
                              [] k = "query:" -> [item EXCEPT !.Query = val]
                              [] k = "vars:" -> [item EXCEPT !.Vars = val]
                              [] k = "order.var:" ->
                                    [item EXCEPT !.Metadata.Var = val]
                              [] OTHER ->
                                    [item EXCEPT !.Metadata.Values =
                                                    YamlUnlist(val)]
                  IN  YamlDecodeInto(Slice(b, e + 1, Len(b)), it)

\* whether the braces of compact text match, from the first one to the
\* last atom
Balanced(flat) ==
    /\ flat # <<>>
    /\ flat[Len(flat)] = RBrace
    /\ Depth(flat, Len(flat)) = 0
    /\ \A n \in (IndexByte(flat, LBrace) + 1)..(Len(flat) - 1) :
          Depth(flat, n) > 0

IsName(tok) == Len(tok) >= 1 /\ tok[1] \in Letters

\* the header of an operation whose tokens are ts: a keyword or nothing,
\* then a name or nothing, then a selection set; a name needs a keyword
Header(ts, balanced) ==
    CASE Len(ts) >= 1 /\ ts[1] = <<LBrace>> /\ balanced ->
            [Name |-> <<>>, err |-> FALSE]
      [] Len(ts) >= 2 /\ isGraphQL(ts[1]) /\ ts[2] = <<LBrace>> /\ balanced ->
            [Name |-> <<>>, err |-> FALSE]
      [] Len(ts) >= 3 /\ isGraphQL(ts[1]) /\ IsName(ts[2])
         /\ ts[3] = <<LBrace>> /\ balanced ->
            [Name |-> ts[2], err |-> FALSE]
      [] OTHER -> [Name |-> <<>>, err |-> TRUE]

\* qd.Parse, qd.WriteTo and graph.FastParse on the query of an item: the
\* name of the operation, or an error when the text is no operation
FastParse(q) == Header(Tokens(q), Balanced(Compact(q)))

(***************************************************************************)
(* The read path                                                           *)
(***************************************************************************)
ErrNil == "nil"
ErrIO == "i/o error"
ErrUnknownFileType == "unknown filetype"
ErrInvalidFilename == "invalid filename"
ErrYaml == "yaml: cannot unmarshal"
ErrSegment == "malformed query"

\* the atoms of file names in byte order
AtomOrder ==
    << ".", "GetUser", "Other", "UserFields", "getuser", "gql", "graphql",
       "ns", "other", "sub", "txt", "yaml", "yml" >>

AtomRank(a) ==
    IF \E i \in 1..Len(AtomOrder) : AtomOrder[i] = a
    THEN CHOOSE i \in 1..Len(AtomOrder) : AtomOrder[i] = a
    ELSE 0

RECURSIVE NameLess(_, _)
NameLess(a, b) ==
    IF a = <<>> THEN b # <<>>
    ELSE IF b = <<>> THEN FALSE
    ELSE IF Head(a) = Head(b) THEN NameLess(Tail(a), Tail(b))
    ELSE AtomRank(Head(a)) < AtomRank(Head(b))

RECURSIVE SetToSortedSeq(_)
SetToSortedSeq(S) ==
    IF S = {} THEN <<>>
    ELSE LET m == CHOOSE x \in S : \A y \in S \ {x} : NameLess(x, y)
         IN  <<m>> \o SetToSortedSeq(S \ {m})

\* afero.ReadDir: the entries of a directory, sorted by name
ReadDir(F, bad, d) ==
    IF <<"readdir", d>> \in bad \/ d \notin F.dirs
    THEN [files |-> <<>>, err |-> TRUE]
    ELSE [files |->
            SetToSortedSeq({ Base(p) : p \in { q \in DOMAIN F.files \cup F.dirs :
                                                q # d /\ Dir(q) = d } }),
          err |-> FALSE]

\* itemFromYaml after afero.ReadFile has returned r
Unmarshalled(d) ==
    IF d.err THEN [item |-> d.item, err |-> ErrYaml]
    ELSE [item |-> d.item, err |-> ErrNil]

YamlRead(r) ==
    IF r.err THEN [item |-> ZeroItem, err |-> ErrIO]
    ELSE Unmarshalled(YamlDecodeInto(r.data, ZeroItem))

itemFromYaml(F, bad, filePath) == YamlRead(ReadFile(F, bad, filePath))

Segmented(p) ==
    IF p.err THEN [query |-> <<>>, err |-> ErrSegment]
    ELSE [query |-> p.item.Query, err |-> ErrNil]

GqlRead(r) ==
    IF r.err THEN [query |-> <<>>, err |-> ErrIO]
    ELSE Segmented(parseQuery(r.data))

\* the query text of a GraphQL file: the file is read and segmented
parseGQLFile(F, bad, filePath) == GqlRead(ReadFile(F, bad, filePath))

\* itemFromGQL after splitName, with q what parseGQLFile returns
GqlItem(nn, q) ==
    IF nn[2] = <<>> THEN [item |-> ZeroItem, err |-> ErrInvalidFilename]
    ELSE IF q.err # ErrNil THEN [item |-> ZeroItem, err |-> q.err]
    ELSE [item |-> [ZeroItem EXCEPT !.Namespace = nn[1], !.Name = nn[2],
                                    !.Query = q.query,
                                    !.key = ToLower(nn[2])],
          err |-> ErrNil]

\* the file name without its extension
Stem(fn) == TrimSuffix(fn, Ext(fn))

itemFromGQL(F, bad, filePath) ==
    GqlItem(splitName(Stem(Base(filePath))), parseGQLFile(F, bad, filePath))

\* the switch of Get on the extension
GetExt(F, bad, filePath, ext) ==
    CASE ext \in { <<Dot, "gql">>, <<Dot, "graphql">> } ->
            itemFromGQL(F, bad, filePath)
      [] ext \in { <<Dot, "yml">>, <<Dot, "yaml">> } ->
            itemFromYaml(F, bad, filePath)
      [] OTHER -> [item |-> ZeroItem, err |-> ErrUnknownFileType]

Get(F, bad, filePath) == GetExt(F, bad, filePath, Ext(filePath))

\* a variant of the order that tries .yaml first
ProbeOrderYamlFirst ==
    << <<Dot, "yaml">>, <<Dot, "gql">>, <<Dot, "graphql">>, <<Dot, "yml">> >>

\* the extensions GetByName tries, in its order
ProbeOrder == << <<Dot, "gql">>, <<Dot, "graphql">>, <<Dot, "yml">>,
                 <<Dot, "yaml">> >>

\* GetByName from its n-th probe on
RECURSIVE GetByNameFrom(_, _, _, _)

\* one probe of GetByName, e being what afero.Exists returned for fn
Probe(F, bad, fpath, n, fn, e) ==
    IF e.ok THEN Get(F, bad, fn)
    ELSE IF e.err THEN [item |-> ZeroItem, err |-> ErrIO]
    ELSE GetByNameFrom(F, bad, fpath, n + 1)

ProbeFile(F, bad, fpath, n, fn) ==
    Probe(F, bad, fpath, n, fn, Exists(F, bad, fn))

GetByNameFrom(F, bad, fpath, n) ==
    IF n > Len(ProbeOrder) THEN [item |-> ZeroItem, err |-> ErrNil]
    ELSE ProbeFile(F, bad, fpath, n, fpath \o ProbeOrder[n])

GetByName(F, bad, filePath) ==
    GetByNameFrom(F, bad, Join(queryPath, filePath), 1)

\* the loop of Load over the entries from the n-th on
RECURSIVE LoadFrom(_, _, _, _, _)

\* the body of the loop of Load for the entry at path p, g being what Get
\* returns for it
LoadEntry(F, bad, ents, n, items, p, g) ==
    IF p \in F.dirs THEN LoadFrom(F, bad, ents, n + 1, items)
    ELSE IF g.err = ErrUnknownFileType
    THEN LoadFrom(F, bad, ents, n + 1, items)
    ELSE IF g.err # ErrNil THEN [items |-> <<>>, err |-> g.err]
    ELSE LoadFrom(F, bad, ents, n + 1, Append(items, g.item))

LoadPath(F, bad, ents, n, items, p) ==
    LoadEntry(F, bad, ents, n, items, p, Get(F, bad, p))

LoadFrom(F, bad, ents, n, items) ==
    IF n > Len(ents) THEN [items |-> items, err |-> ErrNil]
    ELSE LoadPath(F, bad, ents, n, items, Join(queryPath, ents[n]))

\* a variant of Load that does not return when the directory is not there
LoadDirNoExistCheck(F, bad, d, l) ==
    IF d.err THEN [items |-> <<>>, err |-> ErrIO]
    ELSE IF l.err THEN [items |-> <<>>, err |-> ErrIO]
    ELSE LoadFrom(F, bad, l.files, 1, <<>>)

\* Load after afero.DirExists has returned d and afero.ReadDir l
LoadDir(F, bad, d, l) ==
    IF ~d.ok THEN [items |-> <<>>, err |-> ErrNil]
    ELSE IF d.err THEN [items |-> <<>>, err |-> ErrIO]
    ELSE IF l.err THEN [items |-> <<>>, err |-> ErrIO]
    ELSE LoadFrom(F, bad, l.files, 1, <<>>)

Load(F, bad) ==
    LoadDir(F, bad, DirExists(F, bad, queryPath), ReadDir(F, bad, queryPath))

Fetched(r) == [v |-> r.data, err |-> IF r.err THEN ErrIO ELSE ErrNil]

\* the function FragmentFetcher(namespace) returns, applied to name
FragmentFetcher(F, bad, namespace, name) ==
    Fetched(ReadFile(F, bad,
                     Join(fragmentPath,
                          IF namespace # <<>>
                          THEN namespace \o <<Dot>> \o name ELSE name)))

(***************************************************************************)
(* The write path as pure steps                                            *)
(***************************************************************************)
ErrReadOnly == "allow list is read-only"
ErrEmptyQuery == "empty query"
ErrNoName == "no query name defined"
ErrParse == "query does not parse"
ErrVars == "invalid json"
ErrWrite == "write failed"

\* the item Set sends: the parsed one with the arguments of Set
Draft(p, vars, md, namespace) ==
    IF p.err THEN [send |-> FALSE, err |-> ErrSegment, item |-> ZeroItem]
    ELSE [send |-> TRUE, err |-> ErrNil,
          item |-> [p.item EXCEPT !.Namespace = namespace, !.Vars = vars,
                                  !.Metadata = md]]

\* variants of Set: one without the check of the empty query, one without
\* the check of the channel
SetNoEmptyCheck(ch, vars, query, md, namespace) ==
    IF ch = "nil" THEN [send |-> FALSE, err |-> ErrReadOnly, item |-> ZeroItem]
    ELSE Draft(parseQuery(query), vars, md, namespace)

SetNoReadOnlyCheck(ch, vars, query, md, namespace) ==
    IF query = <<>>
    THEN [send |-> FALSE, err |-> ErrEmptyQuery, item |-> ZeroItem]
    ELSE Draft(parseQuery(query), vars, md, namespace)

\* Set up to the send on saveChan: the error it returns, or the item it
\* is about to send
Set(ch, vars, query, md, namespace) ==
    IF ch = "nil" THEN [send |-> FALSE, err |-> ErrReadOnly, item |-> ZeroItem]
    ELSE IF query = <<>>
    THEN [send |-> FALSE, err |-> ErrEmptyQuery, item |-> ZeroItem]
    ELSE Draft(parseQuery(query), vars, md, namespace)

\* a variant of save that does not look at h.Name before it saves
NamedAnyway(item, h) ==
    IF h.err THEN [item |-> item, err |-> ErrParse]
    ELSE [item |-> [item EXCEPT !.Name = h.Name, !.key = ToLower(h.Name)],
          err |-> ErrNil]

\* save after graph.FastParse has returned h
Named(item, h) ==
    IF h.err THEN [item |-> item, err |-> ErrParse]
    ELSE IF h.Name = <<>> THEN [item |-> item, err |-> ErrNoName]
    ELSE [item |-> [item EXCEPT !.Name = h.Name, !.key = ToLower(h.Name)],
          err |-> ErrNil]

\* save up to the call of saveItem: the item with its canonical name
save(item) == Named(item, FastParse(item.Query))

\* saveItem after jsn.Clear has returned c
WithVars(item, c) ==
    IF c.err THEN [item |-> item, err |-> ErrVars]
    ELSE [item |-> [item EXCEPT !.Vars = MarshalIndent(c.out)],
          err |-> ErrNil]

\* saveItem up to the first write: the item with its Vars cleaned
saveItemVars(item) ==
    IF item.Vars = <<>> THEN [item |-> item, err |-> ErrNil]
    ELSE WithVars(item, jsnClear(item.Vars))

\* save and saveItem up to the first write
Prepared(s) == IF s.err # ErrNil THEN s ELSE saveItemVars(s.item)

\* a variant of the file name that leaves the namespace out
ItemFileNoNamespace(item) == item.Name \o <<Dot, "yaml">>

\* the file name of the main record of an item
ItemFile(item) ==
    IF item.Namespace # <<>>
    THEN item.Namespace \o <<Dot>> \o item.Name \o <<Dot, "yaml">>
    ELSE item.Name \o <<Dot, "yaml">>

\* a variant of the file name of a fragment that has the name of the item
\* in it
FragFileByRecord(item, fv) ==
    IF item.Namespace # <<>>
    THEN item.Namespace \o <<Dot>> \o item.Name \o <<Dot>> \o fv.Name
    ELSE item.Name \o <<Dot>> \o fv.Name

\* the file name of a fragment of an item
FragFile(item, fv) ==
    IF item.Namespace # <<>> THEN item.Namespace \o <<Dot>> \o fv.Name
    ELSE fv.Name

(***************************************************************************)
(* Bounds and inputs                                                       *)
(***************************************************************************)
NumCallers == 2
MaxCalls == 2

Callers == 1..NumCallers

QNamed == <<"query", SP, "GetUser", SP, LBrace, SP, "name", SP, RBrace>>
QAnon == <<"query", SP, LBrace, SP, "name", SP, RBrace>>
QBad == <<"query", SP, "GetUser">>
QMutation == <<"mutation", SP, "GetUser", SP, LBrace, SP, "name", SP, RBrace>>
QOther == <<"query", SP, "Other", SP, LBrace, SP, "c", SP, RBrace>>
FragUserA ==
    <<"fragment", SP, "UserFields", SP, "on", SP, "User", SP, LBrace, SP,
      "name", SP, RBrace>>
FragUserB ==
    <<"fragment", SP, "UserFields", SP, "on", SP, "User", SP, LBrace, SP,
      "c", SP, RBrace>>
FragOther ==
    <<"fragment", SP, "OtherFields", SP, "on", SP, "User", SP, LBrace, SP,
      "name", SP, RBrace>>
QFragA == QNamed \o <<SP>> \o FragUserA
QFragB == QOther \o <<SP>> \o FragUserB \o <<SP>> \o FragOther

VGood == <<LBrace, SP, "id", Colon, "1", SP, RBrace>>
VBadJson == <<LBrace, "id">>

MdOrder == [Var |-> <<"id">>, Values |-> << <<"c">>, <<"s">> >>]

Req(v, q, md, ns) == [vars |-> v, query |-> q, md |-> md, ns |-> ns]

\* the arguments Set is called with: the empty query with and without the
\* other arguments; a named operation with variables and metadata, and with
\* variables that are not JSON; an anonymous operation; an operation
\* without body; documents with fragments of the same name, two in one
\* namespace and one in another
Requests ==
    { Req(<<>>, <<>>, NoMetadata, <<>>),
      Req(VGood, <<>>, MdOrder, <<"ns">>),
      Req(VGood, QNamed, MdOrder, <<>>),
      Req(VBadJson, QNamed, NoMetadata, <<"ns">>),
      Req(<<>>, QAnon, NoMetadata, <<>>),
      Req(<<>>, QBad, NoMetadata, <<"ns">>),
      Req(<<>>, QFragA, NoMetadata, <<>>),
      Req(VGood, QFragB, NoMetadata, <<>>),
      Req(<<>>, QFragB, MdOrder, <<"ns">>) }

Namespaces == { <<>>, <<"ns">> }

NoFiles == [p \in {} |-> <<>>]

\* the filesystems a store is opened on: a root with nothing in it, and a
\* tree that holds a GraphQL file for the name GetUser
SeedEmpty == [dirs |-> {}, files |-> NoFiles]
SeedGql ==
    [dirs |-> { queryPath, fragmentPath },
     files |-> (Join(queryPath, <<"GetUser", Dot, "gql">>) :> QMutation)]
Seeds == { SeedEmpty, SeedGql }

(***************************************************************************)
(* State                                                                   *)
(***************************************************************************)
VARIABLES
    saveChan,   \* "nil" (NewReadOnly) or "open" (New)
    fs,         \* the filesystem al.fs
    pc,         \* per caller: "idle", or "send" while blocked in saveChan <- item
    pending,    \* per caller: the call number and the item it is sending
    calls,      \* the number of Set calls made
    rets,       \* per call number: what Set returned, "blocked" until it returns
    wpc,        \* the writer goroutine: "recv", "save", "frags"
    cur,        \* the call number and the item the writer is saving
    fi,         \* the index in cur.item.frags of the next fragment to write
    obs,        \* the operation that has just returned, with its result
    doc,        \* the document a run of parseQuery on its own is given
    scan,       \* the locals of that run: s.Pos(), st, sp, op, item, err
    hist        \* history, read by no action: what was received and written

vars ==
    <<saveChan, fs, pc, pending, calls, rets, wpc, cur, fi, obs, doc, scan,
      hist>>

NoObs == [op |-> "none"]
NoRec == [id |-> 0, item |-> ZeroItem]
NoDoc == [parts |-> <<>>]

\* the history of a store nothing has happened to: order is the call
\* numbers in the order the goroutine received them, seen gives for every
\* call the calls that had returned nil when it was made, main gives for
\* the calls whose main record was written the path and the bytes written
NoHist == [order |-> <<>>, seen |-> <<>>, main |-> <<>>]

Idle ==
    /\ pc = [c \in Callers |-> "idle"]
    /\ pending = [c \in Callers |-> NoRec]
    /\ calls = 0
    /\ rets = <<>>
    /\ wpc = "recv"
    /\ cur = NoRec
    /\ fi = 0
    /\ obs = NoObs
    /\ hist = NoHist

\* no run of parseQuery on its own
NoRun ==
    /\ doc = NoDoc
    /\ scan = ScanStart

\* New(conf, seed): the channel is made, the two MkdirAll have done what
\* the filesystem let them (their errors are dropped), the goroutine waits
New(seed, mk) ==
    /\ saveChan = "open"
    /\ fs = MkdirAll(MkdirAll(seed, queryPath, mk), fragmentPath, mk)
    /\ Idle
    /\ NoRun

\* NewReadOnly(seed): no channel, no goroutine
NewReadOnly(seed) ==
    /\ saveChan = "nil"
    /\ fs = seed
    /\ Idle
    /\ NoRun

Init ==
    \/ \E seed \in Seeds, mk \in BOOLEAN : New(seed, mk)
    \/ \E seed \in Seeds : NewReadOnly(seed)

(***************************************************************************)
(* Set: the caller runs to its return or to the send it blocks in          *)
(***************************************************************************)
\* a variant of Set over a buffered channel: the call returns nil when it
\* has put its item in the buffer
SetDoBuffered(c, v, q, md, ns, r) ==
    /\ pc[c] = "idle"
    /\ calls < MaxCalls
    /\ calls' = calls + 1
    /\ IF r.send
       THEN /\ pc' = [pc EXCEPT ![c] = "send"]
            /\ pending' = [pending EXCEPT
                              ![c] = [id |-> calls + 1, item |-> r.item]]
            /\ rets' = Append(rets, ErrNil)
       ELSE /\ rets' = Append(rets, r.err)
            /\ UNCHANGED <<pc, pending>>
    /\ obs' = [op |-> "Set", caller |-> c, vars |-> v, query |-> q,
               md |-> md, ns |-> ns,
               err |-> IF r.send THEN ErrNil ELSE r.err]
    /\ UNCHANGED <<saveChan, fs, wpc, cur, fi, doc, scan>>

SetDo(c, v, q, md, ns, r) ==
    /\ pc[c] = "idle"
    /\ calls < MaxCalls
    /\ calls' = calls + 1
    /\ IF r.send
       THEN /\ pc' = [pc EXCEPT ![c] = "send"]
            /\ pending' = [pending EXCEPT
                              ![c] = [id |-> calls + 1, item |-> r.item]]
            /\ rets' = Append(rets, "blocked")
       ELSE /\ rets' = Append(rets, r.err)
            /\ UNCHANGED <<pc, pending>>
    /\ obs' = [op |-> "Set", caller |-> c, vars |-> v, query |-> q,
               md |-> md, ns |-> ns,
               err |-> IF r.send THEN "blocked" ELSE r.err]
    /\ UNCHANGED <<saveChan, fs, wpc, cur, fi, doc, scan>>

SetCall(c, v, q, md, ns) ==
    SetDo(c, v, q, md, ns, Set(saveChan, v, q, md, ns))

(***************************************************************************)
(* The writer goroutine of New                                             *)
(***************************************************************************)
\* a variant of the handoff in which the goroutine receives while al.save
\* is still running
WriterRecvAnytime(c) ==
    /\ saveChan = "open"
    /\ pc[c] = "send"
    /\ cur' = pending[c]
    /\ pending' = [pending EXCEPT ![c] = NoRec]
    /\ pc' = [pc EXCEPT ![c] = "idle"]
    /\ rets' = [rets EXCEPT ![pending[c].id] = ErrNil]
    /\ wpc' = "save"
    /\ fi' = 0
    /\ obs' = [op |-> "SetReturn", caller |-> c, id |-> pending[c].id,
               err |-> ErrNil]
    /\ UNCHANGED <<saveChan, fs, calls, doc, scan>>

\* a variant of the handoff in which the caller stays in Set while the
\* writer has its item
WriterRecvKeepsBlocked(c) ==
    /\ saveChan = "open"
    /\ wpc = "recv"
    /\ pc[c] = "send"
    /\ cur' = pending[c]
    /\ pending' = [pending EXCEPT ![c] = NoRec]
    /\ pc' = [pc EXCEPT ![c] = "idle"]
    /\ rets' = rets
    /\ wpc' = "save"
    /\ fi' = 0
    /\ obs' = [op |-> "SetReturn", caller |-> c, id |-> pending[c].id,
               err |-> "blocked"]
    /\ UNCHANGED <<saveChan, fs, calls, doc, scan>>

\* v, ok := <-al.saveChan meets the send of caller c, whose Set returns nil
WriterRecv(c) ==
    /\ saveChan = "open"
    /\ wpc = "recv"
    /\ pc[c] = "send"
    /\ cur' = pending[c]
    /\ pending' = [pending EXCEPT ![c] = NoRec]
    /\ pc' = [pc EXCEPT ![c] = "idle"]
    /\ rets' = [rets EXCEPT ![pending[c].id] = ErrNil]
    /\ wpc' = "save"
    /\ fi' = 0
    /\ obs' = [op |-> "SetReturn", caller |-> c, id |-> pending[c].id,
               err |-> ErrNil]
    /\ UNCHANGED <<saveChan, fs, calls, doc, scan>>

\* a variant of the loop of the goroutine that ends when al.save returns
SaveDoneStops(e) ==
    /\ wpc' = "stopped"
    /\ cur' = NoRec
    /\ fi' = 0
    /\ obs' = [op |-> "save", id |-> cur.id, item |-> cur.item, err |-> e,
               logged |-> e # ErrNil]

\* what the loop of the goroutine does with the result of al.save: the
\* record is done with, and an error goes to the log
SaveDone(e) ==
    /\ wpc' = "recv"
    /\ cur' = NoRec
    /\ fi' = 0
    /\ obs' = [op |-> "save", id |-> cur.id, item |-> cur.item, err |-> e,
               logged |-> e # ErrNil]

\* the write of the main record of the prepared item p.item, and what
\* follows it; ok is whether the filesystem accepts the write
MainWrite(p, w) ==
    IF p.err # ErrNil THEN fs' = fs /\ SaveDone(p.err)
    ELSE IF w.err THEN fs' = fs /\ SaveDone(ErrWrite)
    ELSE /\ fs' = w.F
         /\ IF p.item.frags = <<>>
            THEN SaveDone(ErrNil)
            ELSE /\ wpc' = "frags"
                 /\ cur' = [cur EXCEPT !.item = p.item]
                 /\ fi' = 1
                 /\ obs' = NoObs

\* a variant of the write of the main record that keeps a file that is
\* already there
WriteMainNoOverwrite(item, ok) ==
    IF Join(queryPath, ItemFile(item)) \in DOMAIN fs.files
    THEN [F |-> fs, err |-> ~ok]
    ELSE WriteFile(fs, Join(queryPath, ItemFile(item)), YamlEncode(item), ok)

\* the write of the main record of the prepared item
WriteMain(item, ok) ==
    WriteFile(fs, Join(queryPath, ItemFile(item)), YamlEncode(item), ok)

SaveStep(p, ok) == MainWrite(p, WriteMain(p.item, ok))

\* al.save(v) up to and with the write of the main record
WriterSave(ok) ==
    /\ wpc = "save"
    /\ SaveStep(Prepared(save(cur.item)), ok)
    /\ UNCHANGED <<saveChan, pc, pending, calls, rets, doc, scan>>

WriteFrag(item, fv, ok) ==
    WriteFile(fs, Join(fragmentPath, FragFile(item, fv)), fv.Value, ok)

\* a variant of the loop over item.frags that goes on to the next fragment
\* when a write fails
FragWriteContinues(w) ==
    /\ fs' = w.F
    /\ IF fi = Len(cur.item.frags)
       THEN SaveDone(IF w.err THEN ErrWrite ELSE ErrNil)
       ELSE /\ wpc' = "frags"
            /\ cur' = cur
            /\ fi' = fi + 1
            /\ obs' = NoObs

\* the write of the fragment fi and what follows it
FragWrite(w) ==
    IF w.err THEN fs' = fs /\ SaveDone(ErrWrite)
    ELSE /\ fs' = w.F
         /\ IF fi = Len(cur.item.frags)
            THEN SaveDone(ErrNil)
            ELSE /\ wpc' = "frags"
                 /\ cur' = cur
                 /\ fi' = fi + 1
                 /\ obs' = NoObs

\* one turn of the loop of saveItem over item.frags
WriterFrag(ok) ==
    /\ wpc = "frags"
    /\ FragWrite(WriteFrag(cur.item, cur.item.frags[fi], ok))
    /\ UNCHANGED <<saveChan, pc, pending, calls, rets, doc, scan>>

(***************************************************************************)
(* The store with its callers and its writer                               *)
(***************************************************************************)
CallSet ==
    /\ \E c \in Callers, r \in Requests :
            SetCall(c, r.vars, r.query, r.md, r.ns)
    /\ UNCHANGED hist
Recv ==
    /\ \E c \in Callers : WriterRecv(c)
    /\ UNCHANGED hist
SaveMain ==
    /\ \E ok \in BOOLEAN : WriterSave(ok)
    /\ UNCHANGED hist
SaveFrag ==
    /\ \E ok \in BOOLEAN : WriterFrag(ok)
    /\ UNCHANGED hist

Next ==
    \/ CallSet
    \/ Recv
    \/ SaveMain
    \/ SaveFrag

Spec == Init /\ [][Next]_vars

\* al.save runs on from its start to the write of the main record or to
\* its return: the steps of SaveMain, which is enabled whenever the writer
\* is at "save"
SaveRuns == wpc = "save" /\ wpc' \in { "recv", "frags" }

\* the goroutine of New is scheduled: al.save goes on when it can, and a
\* caller that is again and again ready to hand its item over is received
\* from (the channel serves the blocked senders in their order)
Fairness ==
    /\ WF_wpc(SaveRuns)
    /\ WF_vars(SaveFrag)
    /\ \A c \in Callers : SF_vars(WriterRecv(c) /\ UNCHANGED hist)

SpecFair == Init /\ [][Next]_vars /\ Fairness

(***************************************************************************)
(* The read operations, on a store opened with NewReadOnly over a tree     *)
(* that other programs have filled                                         *)
(***************************************************************************)
\* the record al.save writes for a query of namespace ns
Stored(ns, name, query, v) ==
    [ZeroItem EXCEPT !.Namespace = ns, !.Name = name, !.Query = query,
                     !.Vars = v]

GqlFile == Join(queryPath, <<"GetUser", Dot, "gql">>)
GraphqlFile == Join(queryPath, <<"GetUser", Dot, "graphql">>)
YmlFile == Join(queryPath, <<"GetUser", Dot, "yml">>)
YamlFile == Join(queryPath, <<"GetUser", Dot, "yaml">>)
NsYamlFile == Join(queryPath, <<"ns", Dot, "GetUser", Dot, "yaml">>)
TxtFile == Join(queryPath, <<"GetUser", Dot, "txt">>)
BadYmlFile == Join(queryPath, <<"Other", Dot, "yml">>)
SubDir == Join(queryPath, <<"sub">>)
UserFieldsFile == Join(fragmentPath, <<"UserFields">>)
NsUserFieldsFile == Join(fragmentPath, <<"ns", Dot, "UserFields">>)

\* what each file of /queries holds when it is there: every file of the
\* name GetUser holds another query, Other.yml is not a YAML document
QueryFiles ==
    (GqlFile :> QFragA)
    @@ (GraphqlFile :> QOther)
    @@ (YmlFile :> YamlEncode(Stored(<<>>, <<"GetUser">>, QMutation, <<>>)))
    @@ (YamlFile :>
            YamlEncode(Stored(<<>>, <<"GetUser">>, QNamed,
                              MarshalIndent(Compact(VGood)))))
    @@ (NsYamlFile :> YamlEncode(Stored(<<"ns">>, <<"GetUser">>, QAnon, <<>>)))
    @@ (TxtFile :> QNamed)
    @@ (BadYmlFile :> QNamed)

FragmentFiles == (UserFieldsFile :> FragUserA) @@ (NsUserFieldsFile :> FragUserB)

\* a tree with the files S of /queries, a directory in /queries and the
\* two fragment files
Tree(S) ==
    [dirs |-> { queryPath, fragmentPath, SubDir },
     files |-> [p \in S \cup DOMAIN FragmentFiles |->
                    IF p \in S THEN QueryFiles[p] ELSE FragmentFiles[p]]]

\* a root without /queries that has fragment files
SeedNoQueries ==
    [dirs |-> { fragmentPath }, files |-> FragmentFiles]

\* the files GetByName probes for the name GetUser, and the other files
ProbeFiles == { GqlFile, GraphqlFile, YmlFile, YamlFile }
OtherFiles == { {}, { NsYamlFile, TxtFile }, { NsYamlFile, TxtFile, BadYmlFile } }

ReadSeeds ==
    { SeedEmpty, SeedNoQueries }
    \cup { Tree(S \cup T) : S \in SUBSET ProbeFiles, T \in OtherFiles }

\* the calls the filesystem may answer with an error, at most one in an
\* operation
LoadFaults ==
    { {}, { <<"stat", queryPath>> }, { <<"readdir", queryPath>> },
      { <<"read", YamlFile>> } }
GetFaults == { {}, { <<"read", GqlFile>> }, { <<"read", YamlFile>> } }
ProbeFaults == { {}, { <<"stat", YmlFile>> }, { <<"read", GqlFile>> } }
FetchFaults == { {}, { <<"read", UserFieldsFile>> } }

GetPaths == DOMAIN QueryFiles \cup { SubDir }
LookupNames == { <<"GetUser">>, <<"ns", Dot, "GetUser">>, <<"Other">> }
FragmentNames == { <<"UserFields">>, <<"OtherFields">> }

InitRead == \E seed \in ReadSeeds : NewReadOnly(seed)

DoLoad(bad) ==
    /\ obs' = [op |-> "Load", bad |-> bad, res |-> Load(fs, bad)]
    /\ UNCHANGED <<saveChan, fs, pc, pending, calls, rets, wpc, cur, fi, doc, scan,
                   hist>>

DoGet(path, bad) ==
    /\ obs' = [op |-> "Get", path |-> path, bad |-> bad,
               res |-> Get(fs, bad, path)]
    /\ UNCHANGED <<saveChan, fs, pc, pending, calls, rets, wpc, cur, fi, doc, scan,
                   hist>>

DoGetByName(name, bad) ==
    /\ obs' = [op |-> "GetByName", name |-> name, bad |-> bad,
               res |-> GetByName(fs, bad, name)]
    /\ UNCHANGED <<saveChan, fs, pc, pending, calls, rets, wpc, cur, fi, doc, scan,
                   hist>>

DoFetch(ns, name, bad) ==
    /\ obs' = [op |-> "Fetch", ns |-> ns, name |-> name, bad |-> bad,
               res |-> FragmentFetcher(fs, bad, ns, name)]
    /\ UNCHANGED <<saveChan, fs, pc, pending, calls, rets, wpc, cur, fi, doc, scan,
                   hist>>

CallLoad == \E bad \in LoadFaults : DoLoad(bad)
CallGet == \E path \in GetPaths, bad \in GetFaults : DoGet(path, bad)
CallGetByName ==
    \E name \in LookupNames, bad \in ProbeFaults : DoGetByName(name, bad)
CallFetch ==
    \E ns \in Namespaces, name \in FragmentNames, bad \in FetchFaults :
        DoFetch(ns, name, bad)

NextRead ==
    \/ CallSet
    \/ CallLoad
    \/ CallGet
    \/ CallGetByName
    \/ CallFetch

SpecRead == InitRead /\ [][NextRead]_vars

(***************************************************************************)
(* parseQuery on its own, one Scan at a time, over documents made of an    *)
(* optional leading comment and, in any order, an optional variables       *)
(* block, one operation and fragments                                      *)
(***************************************************************************)
Part(kind, name, text) == [kind |-> kind, name |-> name, text |-> text]

QNested ==
    <<"query", SP, "GetUser", SP, LBrace, SP, "User", SP, LBrace, SP, "name",
      SP, RBrace, SP, RBrace>>
\* operations that select a field called variables, fragments
QVariablesField ==
    <<"query", SP, "GetUser", SP, LBrace, SP, "variables", SP, LBrace, SP,
      "name", SP, RBrace, SP, RBrace>>
QFragmentsField ==
    <<"query", SP, "GetUser", SP, LBrace, SP, "fragment", "s", SP, LBrace, SP,
      "name", SP, RBrace, SP, RBrace>>

CommentPart == Part("comment", <<>>, <<COpen, SP, "c", SP, CClose>>)
VarsPart == Part("vars", <<>>, <<"variables", SP>> \o VGood)
PlainOps ==
    { Part("op", <<"GetUser">>, QNamed), Part("op", <<"GetUser">>, QMutation),
      Part("op", <<>>, QAnon), Part("op", <<"GetUser">>, QNested) }
FieldOps ==
    { Part("op", <<"GetUser">>, QVariablesField),
      Part("op", <<"GetUser">>, QFragmentsField) }
OpParts == PlainOps \cup FieldOps
FragParts ==
    { Part("frag", <<"UserFields">>, FragUserA),
      Part("frag", <<"OtherFields">>, FragOther) }

\* the orders of the elements of a set
Orders(S) ==
    { f \in [1..Cardinality(S) -> S] :
        \A i, j \in 1..Cardinality(S) : f[i] = f[j] => i = j }

Bodies ==
    UNION { Orders(V \cup {o} \cup F) :
              V \in SUBSET {VarsPart}, o \in OpParts, F \in SUBSET FragParts }

SegDocs ==
    { [parts |-> lead \o body] : lead \in { <<>>, <<CommentPart>> },
                                body \in Bodies }

\* the documents without operation and fragment: a comment, a variables
\* block, or both
NoOpDocs ==
    { [parts |-> <<CommentPart>>], [parts |-> <<VarsPart>>],
      [parts |-> <<CommentPart, VarsPart>>] }

\* the text of a document: its parts, a blank between two of them
RECURSIVE TextFrom(_, _)
TextFrom(parts, n) ==
    IF n > Len(parts) THEN <<>>
    ELSE IF n = Len(parts) THEN parts[n].text
    ELSE parts[n].text \o <<SP>> \o TextFrom(parts, n + 1)

Text(d) == TextFrom(d.parts, 1)

InitSeg ==
    /\ saveChan = "nil"
    /\ fs = SeedEmpty
    /\ Idle
    /\ doc \in SegDocs \cup NoOpDocs
    /\ scan = ScanStart

\* tok := s.Scan() and the body of the loop, or the code after the loop
SegStep ==
    /\ doc # NoDoc
    /\ ~scan.done
    /\ scan' = ScanStep(Text(doc), scan)
    /\ UNCHANGED <<saveChan, fs, pc, pending, calls, rets, wpc, cur, fi, obs, doc,
                   hist>>

NextSeg == SegStep

SpecSeg == InitSeg /\ [][NextSeg]_vars

(***************************************************************************)
(* Properties                                                              *)
(***************************************************************************)
\* a step in which a call of Set runs
SetStep == calls' # calls

\* a step in which al.save returns
SaveReturns == wpc # "recv" /\ wpc' = "recv"

\* the call number i is with no caller and not with the writer
NowhereQueued(i) == cur.id # i /\ \A c \in Callers : pending[c].id # i

\* C1: Set called with an empty query returns an error whatever the store
\* and the other arguments, blocks no caller, hands nothing to the writer
\* and changes no file; no record of a call that returned an error is ever
\* with a caller or with the writer.
C1_EmptyQueryNeverQueued ==
    /\ [][SetStep /\ obs'.query = <<>>
            => /\ obs'.err \in { ErrEmptyQuery, ErrReadOnly }
               /\ rets' = Append(rets, obs'.err)
               /\ pc' = pc
               /\ pending' = pending
               /\ cur' = cur
               /\ fs' = fs]_vars
    /\ [](\A i \in 1..Len(rets) :
            rets[i] \in { ErrEmptyQuery, ErrReadOnly } => NowhereQueued(i))

\* an empty query with variables has just been refused on a writable store
\* while another caller is blocked in its send
C1_Witness ==
    /\ saveChan = "open"
    /\ obs.op = "Set"
    /\ obs.query = <<>>
    /\ obs.vars # <<>>
    /\ obs.err = ErrEmptyQuery
    /\ \E c \in Callers : pc[c] = "send"

\* the name a record is looked up by
Composite(ns, name) == IF ns # <<>> THEN ns \o <<Dot>> \o name ELSE name

\* the files of /queries that Get can read
Readable ==
    { GqlFile, GraphqlFile, YmlFile, YamlFile, NsYamlFile }

\* what a read operation has returned is what the files hold
ReadsServed ==
    /\ obs.op = "Fetch" /\ obs.bad = {}
         /\ Join(fragmentPath, Composite(obs.ns, obs.name)) \in DOMAIN fs.files
            => obs.res = [v |-> fs.files[Join(fragmentPath,
                                              Composite(obs.ns, obs.name))],
                          err |-> ErrNil]
    /\ obs.op = "Get" /\ obs.bad = {}
         /\ obs.path \in Readable \cap DOMAIN fs.files
            => obs.res.err = ErrNil /\ obs.res.item.Query # <<>>
    /\ obs.op = "GetByName" /\ obs.bad = {} /\ obs.name = <<"GetUser">>
         /\ DOMAIN fs.files \cap ProbeFiles # {}
            => obs.res.err = ErrNil /\ obs.res.item.Name = <<"GetUser">>
    /\ obs.op = "Load" /\ obs.bad = {} /\ BadYmlFile \notin DOMAIN fs.files
            => /\ obs.res.err = ErrNil
               /\ Len(obs.res.items)
                    = Cardinality(Readable \cap DOMAIN fs.files)

\* C2: on a store opened with NewReadOnly every call of Set returns the
\* read-only error, no caller ever blocks, nothing is queued, no file
\* changes, and Load, Get, GetByName and FragmentFetcher return what the
\* files hold.
C2_ReadOnlyStore ==
    /\ [][saveChan = "nil"
            => /\ fs' = fs
               /\ SetStep => /\ obs'.op = "Set"
                             /\ obs'.err = ErrReadOnly
                             /\ rets' = Append(rets, ErrReadOnly)]_vars
    /\ [](saveChan = "nil"
            => /\ \A c \in Callers : pc[c] = "idle" /\ pending[c] = NoRec
               /\ wpc = "recv"
               /\ cur = NoRec
               /\ ReadsServed)

\* on a read-only store where Set has failed, GetByName has returned the
\* record of a file
C2_Witness ==
    /\ saveChan = "nil"
    /\ calls > 0
    /\ rets[1] = ErrReadOnly
    /\ obs.op = "GetByName"
    /\ obs.res.err = ErrNil
    /\ obs.res.item.Name = <<"GetUser">>

\* no record that Load returns from F has the anonymous query
NoAnonymous(l) ==
    /\ l.err = ErrNil
    /\ \A i \in 1..Len(l.items) :
            l.items[i].Query # QAnon /\ l.items[i].Name # <<>>

\* C3: Set accepts a document whose operation has no name (the call
\* returns nil), and the writer writes no file for it, in /queries or in
\* /fragments: al.save returns the error of the missing name, and no Load
\* ever returns such a record.
C3_AnonymousNeverPersisted ==
    /\ [][wpc = "save" /\ cur.item.Query = QAnon
            => /\ rets[cur.id] = ErrNil
               /\ fs' = fs
               /\ wpc' # wpc => SaveReturns /\ obs'.err = ErrNoName]_vars
    /\ [][fs' # fs => NoAnonymous(Load(fs', {}))]_vars
    /\ [][SetStep /\ saveChan = "open" /\ obs'.query = QAnon
            => obs'.err = "blocked"]_vars

\* al.save has returned the error of the missing name for a record that Set
\* accepted, on a store whose /queries is there
C3_Witness ==
    /\ obs.op = "save"
    /\ obs.item.Query = QAnon
    /\ obs.err = ErrNoName
    /\ rets[obs.id] = ErrNil
    /\ queryPath \in fs.dirs

\* the name of the operation of a query
OperationName(q) ==
    IF q = QNamed THEN <<"GetUser">>
    ELSE IF q = QOther THEN <<"Other">>
    ELSE <<>>

\* variables as indented JSON
Indented(v) ==
    IF v = VGood THEN <<LBrace, NL, Pad, "id", Colon, SP, "1", NL, RBrace>>
    ELSE v

\* a file or directory of the name with an extension that GetByName tries
\* before .yaml
Shadowed(F, name) ==
    \E e \in { "gql", "graphql", "yml" } :
        Join(queryPath, name \o <<Dot, e>>) \in DOMAIN F.files \cup F.dirs

\* the record g is the item that was submitted
SameRecord(g, item) ==
    /\ g.err = ErrNil
    /\ g.item.Namespace = item.Namespace
    /\ g.item.Name = OperationName(item.Query)
    /\ g.item.Query = item.Query
    /\ g.item.Vars = Indented(item.Vars)

\* a step in which saveItem writes the main record
MainWritten ==
    /\ wpc = "save"
    /\ wpc' = "frags" \/ (wpc' = "recv" /\ obs'.err = ErrNil)

\* C4: when the writer has written the record of a named operation M
\* submitted under the namespace N, GetByName of N.M (of M when N is empty)
\* returns a record with the namespace N, the name M, the segmented query
\* and the submitted variables as indented JSON, unless a .gql, .graphql or
\* .yml file of that name is there.
C4_RoundTrip ==
    [][MainWritten
         /\ ~Shadowed(fs', Composite(cur.item.Namespace,
                                     OperationName(cur.item.Query)))
         => SameRecord(GetByName(fs', {},
                                 Composite(cur.item.Namespace,
                                           OperationName(cur.item.Query))),
                       cur.item)]_vars

\* the record of GetUser with variables has been saved and GetByName
\* returns it with the variables indented
C4_Witness ==
    /\ obs.op = "save"
    /\ obs.err = ErrNil
    /\ obs.item.Query = QNamed
    /\ obs.item.Vars = VGood
    /\ ~Shadowed(fs, <<"GetUser">>)
    /\ GetByName(fs, {}, <<"GetUser">>).item.Vars = Indented(VGood)

\* the key of the item is its name in lower case
KeyOf(item) == item.key = ToLower(item.Name)

\* C5: every record that Get, GetByName or Load returns, from a .gql or
\* .graphql file or from a .yml or .yaml file, has the lower case of its
\* Name as its key.
C5_KeyIsLowerName ==
    /\ obs.op \in { "Get", "GetByName" } /\ obs.res.err = ErrNil
            => KeyOf(obs.res.item)
    /\ obs.op = "Load" /\ obs.res.err = ErrNil
            => \A i \in 1..Len(obs.res.items) : KeyOf(obs.res.items[i])

\* something is at the path
Present(F, p) == p \in DOMAIN F.files \cup F.dirs

\* what GetByName is to return for the name: Get of the first of .gql,
\* .graphql, .yml, .yaml that is there
FirstPresent(F, bad, base) ==
    IF Present(F, base \o <<Dot, "gql">>)
    THEN Get(F, bad, base \o <<Dot, "gql">>)
    ELSE IF Present(F, base \o <<Dot, "graphql">>)
    THEN Get(F, bad, base \o <<Dot, "graphql">>)
    ELSE IF Present(F, base \o <<Dot, "yml">>)
    THEN Get(F, bad, base \o <<Dot, "yml">>)
    ELSE IF Present(F, base \o <<Dot, "yaml">>)
    THEN Get(F, bad, base \o <<Dot, "yaml">>)
    ELSE [item |-> ZeroItem, err |-> ErrNil]

\* C6: GetByName returns what Get returns for the first of
\* /queries/<name>.gql, .graphql, .yml, .yaml that exists, and the empty
\* record without an error when none of the four exists (the filesystem
\* answering every probe).
C6_ProbeOrder ==
    obs.op = "GetByName" /\ (\A f \in obs.bad : f[1] # "stat")
        => obs.res = FirstPresent(fs, obs.bad, Join(queryPath, obs.name))

\* with the .gql, the .yml and the .yaml file of GetUser there, GetByName
\* has returned the record of the .gql file
C6_Witness ==
    /\ obs.op = "GetByName"
    /\ obs.name = <<"GetUser">>
    /\ obs.bad = {}
    /\ { GqlFile, YmlFile, YamlFile } \subseteq DOMAIN fs.files
    /\ GraphqlFile \notin DOMAIN fs.files
    /\ obs.res.err = ErrNil
    /\ obs.res.item.Query = QNamed

\* C7: Load on a store without /queries returns no record and no error,
\* and changes nothing in the filesystem: the directory is not made.
C7_LoadWithoutQueries ==
    /\ [](obs.op = "Load" /\ queryPath \notin fs.dirs
            => obs.res = [items |-> <<>>, err |-> ErrNil])
    /\ [][obs'.op = "Load" => fs' = fs]_vars

\* Load has returned on a root that has files but no /queries
C7_Witness ==
    /\ obs.op = "Load"
    /\ obs.bad = {}
    /\ queryPath \notin fs.dirs
    /\ DOMAIN fs.files # {}
    /\ obs.res.items = <<>>

\* the file of the fragment name of the namespace ns
FragmentFileOf(ns, name) == Join(fragmentPath, Composite(ns, name))

\* a step in which saveItem writes the fragment cur.item.frags[fi]
FragWritten ==
    /\ wpc = "frags"
    /\ (wpc' = "frags" /\ fi' = fi + 1) \/ (wpc' = "recv" /\ obs'.err = ErrNil)

\* F and G differ at most in the file p
SameBut(F, G, p) ==
    /\ DOMAIN G.files = DOMAIN F.files \cup {p}
    /\ \A q \in DOMAIN F.files \ {p} : G.files[q] = F.files[q]

\* C8: a write of a fragment goes to /fragments/<namespace.>name whatever
\* record carries the fragment, and to no other file; after it
\* FragmentFetcher(namespace)(name) returns the body just written, so the
\* last record persisted decides, and what the fetchers of the other
\* namespaces return does not change.
C8_FragmentFiles ==
    [][FragWritten
         => /\ FragmentFetcher(fs', {}, cur.item.Namespace,
                               cur.item.frags[fi].Name)
                 = [v |-> cur.item.frags[fi].Value, err |-> ErrNil]
            /\ SameBut(fs, fs', FragmentFileOf(cur.item.Namespace,
                                               cur.item.frags[fi].Name))
            /\ \A ns \in Namespaces \ {cur.item.Namespace} :
                  FragmentFetcher(fs', {}, ns, cur.item.frags[fi].Name)
                    = FragmentFetcher(fs, {}, ns, cur.item.frags[fi].Name)]_vars

\* the writer is about to write the fragment UserFields of the record Other
\* while the file holds the body that the record GetUser wrote, and the
\* file of the other namespace holds another body
C8_Witness ==
    /\ wpc = "frags"
    /\ cur.item.Name = <<"Other">>
    /\ cur.item.Namespace = <<>>
    /\ cur.item.frags[fi] = [Name |-> <<"UserFields">>, Value |-> FragUserB]
    /\ FragmentFetcher(fs, {}, <<>>, <<"UserFields">>).v = FragUserA
    /\ GetByName(fs, {}, <<"GetUser">>).item.Name = <<"GetUser">>

\* the parts of a kind of a document
Kind(d, k) == SelectSeq(d.parts, LAMBDA p : p.kind = k)

\* the fragments of a document as the segmenter is to return them
FragsOf(fl) ==
    [i \in 1..Len(fl) |-> [Name |-> fl[i].name, Value |-> fl[i].text]]

\* the item has the operation and the fragments of the document
SegmentedAs(item, ops, fl) ==
    /\ item.Query = ops[1].text
    /\ item.frags = FragsOf(fl)

\* C9: for every document of an optional leading comment and, in any
\* order, an optional variables block, one operation and fragments,
\* parseQuery returns the text of the operation as Query and the fragments
\* in the order of the document, each with its text and its name.
C9_SegmentsEveryDocument ==
    scan.done /\ Kind(doc, "op") # <<>>
        => /\ ~scan.err
           /\ SegmentedAs(scan.item, Kind(doc, "op"), Kind(doc, "frag"))

\* C10: on a writable store Set does not return an error for a query that
\* is not empty; it returns nil at the handoff, before al.save runs, and
\* what al.save returns changes no return value of Set: an error of
\* al.save is logged and the record is gone.
C10_SetReturnIgnoresSave ==
    /\ [](wpc # "recv" => rets[cur.id] = ErrNil)
    /\ [][SaveReturns
            => /\ rets' = rets
               /\ obs'.op = "save"
               /\ obs'.logged = (obs'.err # ErrNil)
               /\ cur' = NoRec
               /\ \A c \in Callers : pending'[c].id # cur.id]_vars
    /\ [][SetStep /\ saveChan = "open" /\ obs'.query # <<>>
            => obs'.err = "blocked"]_vars

\* al.save has failed in a write for a record whose Set returned nil
C10_Witness ==
    /\ obs.op = "save"
    /\ obs.err = ErrWrite
    /\ obs.logged
    /\ rets[obs.id] = ErrNil

\* the files that saveItem writes for the item the writer holds: the main
\* record in the state "save", the fragment fi in the state "frags"
FileInHand ==
    IF wpc = "save"
    THEN Join(queryPath, ItemFile(save(cur.item).item))
    ELSE Join(fragmentPath, FragFile(cur.item, cur.item.frags[fi]))

\* C11: the writer saves one record at a time: it receives a record only
\* when it holds none, it holds the same record from the receive until
\* al.save returns, and every change of a file is a write for the record
\* it holds, so the writes of two records never interleave.
C11_WriterSerialized ==
    /\ [](wpc = "recv" <=> cur = NoRec)
    /\ [][cur'.id # cur.id /\ cur'.id # 0 => wpc = "recv" /\ cur = NoRec]_vars
    /\ [][wpc # "recv" /\ wpc' # "recv" => cur'.id = cur.id]_vars
    /\ [][fs' # fs => wpc # "recv" /\ SameBut(fs, fs', FileInHand)]_vars

\* the writer is at the second fragment of a record while another caller
\* is blocked in its send
C11_Witness ==
    /\ wpc = "frags"
    /\ fi = 2
    /\ \E c \in Callers : pc[c] = "send" /\ pending[c].id # cur.id

(***************************************************************************)
(* The store with the history of what it did                               *)
(***************************************************************************)
\* the calls of Set that have returned nil
ReturnedNil == { i \in 1..Len(rets) : rets[i] = ErrNil }

\* what saveItem writes as the main record of the prepared item
MainOf(item) ==
    [path |-> Join(queryPath, ItemFile(item)), data |-> YamlEncode(item)]

\* the history after the main record of the call id was written
WithMain(h, id, w) ==
    [h EXCEPT !.main = [i \in DOMAIN h.main \cup {id} |->
                            IF i = id THEN w ELSE h.main[i]]]

CallSetH ==
    /\ \E c \in Callers, r \in Requests :
            SetCall(c, r.vars, r.query, r.md, r.ns)
    /\ hist' = [hist EXCEPT !.seen = Append(@, ReturnedNil)]

RecvH ==
    /\ \E c \in Callers : WriterRecv(c)
    /\ hist' = [hist EXCEPT !.order = Append(@, cur'.id)]

SaveMainH ==
    /\ \E ok \in BOOLEAN : WriterSave(ok)
    /\ hist' = IF wpc' = "frags" \/ obs'.err = ErrNil
               THEN WithMain(hist, cur.id,
                             MainOf(Prepared(save(cur.item)).item))
               ELSE hist

SaveFragH ==
    /\ \E ok \in BOOLEAN : WriterFrag(ok)
    /\ UNCHANGED hist

NextOrder ==
    \/ CallSetH
    \/ RecvH
    \/ SaveMainH
    \/ SaveFragH

SpecOrder == Init /\ [][NextOrder]_vars

\* the place of the call i in the order of the receives, 0 if it is not in it
Pos(i) ==
    IF \E n \in 1..Len(hist.order) : hist.order[n] = i
    THEN CHOOSE n \in 1..Len(hist.order) : hist.order[n] = i
    ELSE 0

\* the call b is the last one received of those that wrote the main file p
LastAt(b, p) ==
    \A c \in DOMAIN hist.main :
        hist.main[c].path = p => Pos(c) <= Pos(b)

\* C12: when a call A of Set has returned nil before a call B is made and
\* the writer receives B, it has received A before, so it saves A before B;
\* when both wrote their main record to the same file and no later record
\* did, the file holds what B wrote.
C12_Fifo ==
    \A b \in 1..Len(hist.seen) :
        \A a \in hist.seen[b] :
            /\ Pos(b) # 0 => Pos(a) # 0 /\ Pos(a) < Pos(b)
            /\ a \in DOMAIN hist.main /\ b \in DOMAIN hist.main
                 /\ hist.main[a].path = hist.main[b].path
                 /\ LastAt(b, hist.main[b].path)
                    => fs.files[hist.main[b].path] = hist.main[b].data

\* two calls, the second made when the first had returned, wrote different
\* main records to the same file
C12_Witness ==
    /\ 1 \in DOMAIN hist.main
    /\ 2 \in DOMAIN hist.main
    /\ 1 \in hist.seen[2]
    /\ hist.main[1].path = hist.main[2].path
    /\ hist.main[1].data # hist.main[2].data
    /\ fs.files[hist.main[2].path] = hist.main[2].data

\* the record of the call i is with a caller or with the writer
Held(i) == cur.id = i \/ \E c \in Callers : pending[c].id = i

\* C13: an accepted Set returns nil in the step in which the goroutine
\* receives its item and not before; while al.save runs for a record every
\* blocked Set stays blocked; at most one record of a Set that has returned
\* is not yet done with.
C13_UnbufferedHandoff ==
    /\ [](\A c \in Callers :
            pc[c] = "send" => rets[pending[c].id] = "blocked")
    /\ [](Cardinality({ i \in ReturnedNil : Held(i) }) <= 1)
    /\ [][\A i \in 1..Len(rets) :
            rets[i] = "blocked" /\ rets'[i] # "blocked"
                => /\ rets'[i] = ErrNil
                   /\ wpc = "recv"
                   /\ wpc' = "save"
                   /\ cur'.id = i]_vars
    /\ [][wpc # "recv"
            => \A i \in 1..Len(rets) :
                    rets[i] = "blocked" => rets'[i] = "blocked"]_vars

\* al.save runs for a record whose Set has returned while another Set is
\* blocked in its send
C13_Witness ==
    /\ wpc = "save"
    /\ rets[cur.id] = ErrNil
    /\ \E c \in Callers : pc[c] = "send" /\ rets[pending[c].id] = "blocked"

\* the file of the j-th fragment of the item
FragmentPath(item, j) ==
    FragmentFileOf(item.Namespace, item.frags[j].Name)

\* the file is there and holds the data
Holds(F, p, data) == p \in DOMAIN F.files /\ F.files[p] = data

\* the main record of the item and its first n fragments are on disk
PrefixOnDisk(F, item, n) ==
    /\ Holds(F, Join(queryPath, Composite(item.Namespace, item.Name)
                                  \o <<Dot, "yaml">>),
             YamlEncode(item))
    /\ \A j \in 1..n : Holds(F, FragmentPath(item, j), item.frags[j].Value)

\* C14: saveItem writes the main record first and then the fragments in
\* their order: while it is at fragment i the main record and the
\* fragments before i are on disk; it goes on to fragment i+1 only when
\* fragment i was written; when a write fails it returns and nothing is
\* removed or written any more for that record.
C14_WriteOrderNoRollback ==
    /\ [](wpc = "frags" => PrefixOnDisk(fs, cur.item, fi - 1))
    /\ [][wpc = "save" /\ wpc' = "frags"
            => fi' = 1 /\ PrefixOnDisk(fs', cur'.item, 0)]_vars
    /\ [][wpc = "frags" /\ wpc' = "frags" /\ (fi' # fi \/ fs' # fs)
            => /\ fi' = fi + 1
               /\ cur' = cur
               /\ PrefixOnDisk(fs', cur.item, fi)]_vars
    /\ [][wpc # "recv" /\ SaveReturns /\ obs'.err # ErrNil
            => fs' = fs /\ cur' = NoRec]_vars
    /\ [][wpc = "frags" /\ SaveReturns /\ obs'.err = ErrNil
            => fi = Len(cur.item.frags) /\ PrefixOnDisk(fs', cur.item, fi)]_vars

\* the write of the second of two fragments has failed: the main record
\* and the first fragment are on disk, the second fragment is not
C14_Witness ==
    /\ obs.op = "save"
    /\ obs.err = ErrWrite
    /\ Len(obs.item.frags) = 2
    /\ PrefixOnDisk(fs, obs.item, 1)
    /\ FragmentPath(obs.item, 2) \notin DOMAIN fs.files

KnownExts ==
    { <<Dot, "gql">>, <<Dot, "graphql">>, <<Dot, "yml">>, <<Dot, "yaml">> }

\* the entries of /queries that are files with one of the four extensions
Loadable(F) ==
    { p \in DOMAIN F.files : Dir(p) = queryPath /\ Ext(p) \in KnownExts }

\* an error that is not the one of an unknown file type occurs in a load
LoadFails(F, bad) ==
    \/ <<"stat", queryPath>> \in bad
    \/ <<"readdir", queryPath>> \in bad
    \/ \E p \in Loadable(F) : Get(F, bad, p).err # ErrNil

\* the records are those of the loadable entries, one for each
OnePerEntry(F, bad, items) ==
    /\ Len(items) = Cardinality(Loadable(F))
    /\ \A p \in Loadable(F) :
          \E i \in 1..Len(items) : items[i] = Get(F, bad, p).item

\* C15: with /queries there, Load returns an error and no records when
\* checking or listing the directory, reading or decoding a file fails, and
\* otherwise no error and one record for each entry that is a file with a
\* known extension, the other entries being skipped.
C15_LoadSkipOrAbort ==
    obs.op = "Load" /\ queryPath \in fs.dirs
        => IF LoadFails(fs, obs.bad)
           THEN obs.res.err # ErrNil /\ obs.res.items = <<>>
           ELSE obs.res.err = ErrNil /\ OnePerEntry(fs, obs.bad, obs.res.items)

\* the comment a document begins with, or nothing
LeadingComment(d) ==
    IF d.parts[1].kind = "comment" THEN d.parts[1].text ELSE <<>>

\* C16: once parseQuery has left the state expComment, the Comment of the
\* item is the text that precedes the first trigger, trimmed, whether or
\* not it holds a closing brace.
C16_CommentPreserved ==
    doc # NoDoc /\ scan.st # expComment
        => scan.item.Comment = TrimSpace(LeadingComment(doc))

\* the last part of the document
LastPart(d) == d.parts[Len(d.parts)]

\* the span that ends the input is in the item: an operation as Query, a
\* fragment as the last fragment
TrailingFlushed(item, last) ==
    CASE last \in PlainOps -> item.Query = last.text
      [] last.kind = "frag" ->
            /\ item.frags # <<>>
            /\ item.frags[Len(item.frags)] =
                  [Name |-> last.name, Value |-> last.text]
      [] OTHER -> TRUE

\* the item of a document that has no operation and no fragment
OnlyCommentAndVars(item, d) ==
    /\ item.Comment = TrimSpace(LeadingComment(d))
    /\ item.Vars = (IF Kind(d, "vars") = <<>> THEN <<>> ELSE VGood)
    /\ item.Query = <<>>
    /\ item.frags = <<>>

\* C17: when parseQuery has returned, the operation or the fragment that
\* ends the input has been flushed into the item; and a document of only a
\* comment, a variables block or both gives, without error, an item with
\* that Comment and those Vars, an empty Query and no fragments.
C17_EndOfInput ==
    scan.done
        => /\ ~scan.err
           /\ TrailingFlushed(scan.item, LastPart(doc))
           /\ doc \in NoOpDocs => OnlyCommentAndVars(scan.item, doc)

\* C18: on a writable store, Set called with an operation keyword and a
\* name without body (a flush in the state expQuery whose span has no
\* closing brace) gets an error from parseQuery and returns it: the caller
\* is not blocked in the send and no record is made.
C18_MalformedReported ==
    obs.op = "Set" /\ saveChan = "open" /\ obs.query = QBad
        => /\ parseQuery(obs.query).err
           /\ obs.err = ErrSegment
           /\ pc[obs.caller] = "idle"
           /\ pending[obs.caller] = NoRec

\* the token is one of the trigger words
IsTrigger(txt) ==
    txt = <<"variables">> \/ isGraphQL(txt) \/ txt = <<"fragment">>

\* the token t of the text b is a token, and not a trigger word
OtherToken(b, t) == ~t.eof /\ ~IsTrigger(Slice(b, t.start, t.end))

\* C19: a Scan of parseQuery that returns a token other than variables,
\* query, mutation, subscription and fragment (a comment, a brace, an
\* identifier that only begins with one of these words) leaves the state,
\* the split pointer and the item as they are.
C19_OnlyTriggersFlush ==
    [][/\ doc # NoDoc
       /\ ~scan.done
       /\ OtherToken(Text(doc), ScanTok(Text(doc), scan.pos))
       => /\ scan'.st = scan.st
          /\ scan'.sp = scan.sp
          /\ scan'.item = scan.item]_vars

\* the call i of Set is blocked in its send
Blocked(i) == i <= Len(rets) /\ rets[i] = "blocked"

\* the call i of Set has returned nil
Accepted(i) == i <= Len(rets) /\ rets[i] = ErrNil

\* C20: with a scheduled writer every call of Set that is blocked in its
\* send returns nil, its record comes to al.save, and al.save returns; a
\* record comes to al.save only from a blocked call, which has returned
\* from then on, so no record comes twice; the channel is never closed and
\* the goroutine is again and again at its receive.
C20_NoRecordLostOrDuplicated ==
    /\ \A i \in 1..MaxCalls : Blocked(i) ~> (Accepted(i) /\ cur.id = i)
    /\ \A i \in 1..MaxCalls : (cur.id = i) ~> (cur.id # i /\ Accepted(i))
    /\ []<>(wpc = "recv")
    /\ [][cur'.id # cur.id /\ cur'.id # 0
            => Blocked(cur'.id) /\ rets'[cur'.id] = ErrNil]_vars
    /\ [][\A i \in 1..Len(rets) :
            rets[i] # "blocked" => rets'[i] = rets[i]]_vars
    /\ [][saveChan' = saveChan]_vars

\* all the calls were accepted and have returned nil, the writer is back
\* at its receive after a save that failed, and a record of an earlier
\* call is on disk
C20_Witness ==
    /\ saveChan = "open"
    /\ Len(rets) = MaxCalls
    /\ \A i \in 1..MaxCalls : rets[i] = ErrNil
    /\ wpc = "recv"
    /\ obs.op = "save"
    /\ obs.id = MaxCalls
    /\ obs.logged
    /\ \E p \in DOMAIN fs.files : Ext(p) = <<Dot, "yaml">>

====
